---- MODULE Spec2Model ----
(***************************************************************************)
(* Trax layer combinators as described by the layers introduction          *)
(* notebook (src/trax/layers/intro.ipynb): primitive layers, the Serial    *)
(* combinator (stack semantics), the Parallel combinator (spans of         *)
(* inputs) and initialize_once (each layer instance initialized once).     *)
(*                                                                         *)
(* A value is a record [tag, v, p].  tag = "vec" is a NumPy array of       *)
(* integers held in v.  The notebook prints LayerNorm's outputs but not    *)
(* its arithmetic, so LayerNorm's output is kept as an uninterpreted term  *)
(* [tag |-> "LayerNorm", v |-> <<input>>, p |-> params]; an elementwise    *)
(* layer applied to a term yields a term again.                            *)
(***************************************************************************)
EXTENDS Integers, Sequences, FiniteSets, TLC

(* ---------------------------------------------------------------- bounds *)
\* longest sublayer list of the combinators enumerated (the notebook's own
\* three-sublayer examples are added by name)
MaxSub == 2
\* most items a caller leaves on the stack beneath a Serial's own inputs
MaxExtra == 1
\* most arguments a caller leaves out
MaxMissing == 1

(* ---------------------------------------------------------------- values *)
Vec(s) == [tag |-> "vec", v |-> s, p |-> <<>>]
Term(op, args, ps) == [tag |-> op, v |-> args, p |-> ps]
IsNum(x) == x.tag = "vec"

\* the arrays the notebook feeds to its examples (place_64_digits,
\* place_8_digits, place_1_digits) and a row with negative entries (x)
Vals == << Vec(<<1, 3, 5>>), Vec(<<2, 4, 6>>), Vec(<<3, 5, 7>>), Vec(<<-2, 0, 2>>) >>

\* last axis of the input shapes the notebook initializes with: x.shape is
\* (3, 5) in Examples 3 and 4, input_shapes is [[3]] * 3 in Example 6
Shapes == {3, 5}
Dtypes == {"float32", "int32"}
Seeds == {0, 1}

\* the n-item input tuple that starts at the r-th array of Vals
InputRow(n, r) == [i \in 1..n |-> Vals[((i - 1 + r) % Len(Vals)) + 1]]

(* ------------------------------------------------------ primitive layers *)
Layer(i, kind, c, nin, nout, subs) ==
    [id |-> i, kind |-> kind, c |-> c, n_in |-> nin, n_out |-> nout, subs |-> subs]

Relu(i) == Layer(i, "Relu", 0, 1, 1, <<>>)
MulConstant(i, c) == Layer(i, "MulConstant", c, 1, 1, <<>>)
Add(i) == Layer(i, "Add", 0, 2, 1, <<>>)
LayerNorm(i) == Layer(i, "LayerNorm", 0, 1, 1, <<>>)

ReluF(x) ==
    IF IsNum(x)
    THEN Vec([i \in 1..Len(x.v) |-> IF x.v[i] > 0 THEN x.v[i] ELSE 0])
    ELSE Term("Relu", <<x>>, <<>>)

MulConstantF(x, c) ==
    IF IsNum(x)
    THEN Vec([i \in 1..Len(x.v) |-> x.v[i] * c])
    ELSE Term("MulConstant", <<x>>, <<c>>)

AddF(x, y) ==
    IF IsNum(x) /\ IsNum(y)
    THEN Vec([i \in 1..Len(x.v) |-> x.v[i] + y.v[i]])
    ELSE Term("Add", <<x, y>>, <<>>)

LayerNormF(x, ps) == Term("LayerNorm", <<x>>, ps)

\* LayerNorm's new parameters for inputs whose last axis has n entries:
\* (scale, bias) = (ones, zeros)
LayerNormParams(n) == << [i \in 1..n |-> 1], [i \in 1..n |-> 0] >>

(* ------------------------------------------------------------ combinators *)
RECURSIVE SumIn(_), SumOut(_), RunningDepth(_, _, _)

SumIn(subs) == IF subs = <<>> THEN 0 ELSE Head(subs).n_in + SumIn(Tail(subs))
SumOut(subs) == IF subs = <<>> THEN 0 ELSE Head(subs).n_out + SumOut(Tail(subs))

\* Scan of the declared arities: total is the number of items the sublayers
\* so far have taken from beneath the stack minus what they gave back, mx the
\* largest number of items any prefix needed from the caller.
RunningDepth(subs, total, mx) ==
    IF subs = <<>>
    THEN [mx |-> mx, total |-> total]
    ELSE LET t == total + Head(subs).n_in
         IN RunningDepth(Tail(subs), t - Head(subs).n_out, IF t > mx THEN t ELSE mx)

\* a Serial that declares one input fewer than its sublayers need
SerialOneShort(i, subs) ==
    LET r == RunningDepth(subs, 0, 0)
    IN Layer(i, "Serial", 0, IF r.mx > 0 THEN r.mx - 1 ELSE 0, r.mx - r.total, subs)

\* a Serial that asks for one spare item per sublayer
SerialSpareItems(i, subs) ==
    LET r == RunningDepth(subs, 0, 0)
    IN Layer(i, "Serial", 0, r.mx + Len(subs), r.mx + Len(subs) - r.total, subs)

\* Serial(*layers): n_inputs and n_outputs come from the sublayers' arities
Serial(i, subs) ==
    LET r == RunningDepth(subs, 0, 0)
    IN Layer(i, "Serial", 0, r.mx, r.mx - r.total, subs)

\* a Parallel that counts one input and one output per sublayer
ParallelOnePerLayer(i, subs) == Layer(i, "Parallel", 0, Len(subs), Len(subs), subs)

\* Parallel(*layers): takes the sum of the sublayers' inputs, gives the sum
\* of their outputs
Parallel(i, subs) == Layer(i, "Parallel", 0, SumIn(subs), SumOut(subs), subs)

IsCombinator(layer) == layer.kind \in {"Serial", "Parallel"}

(* ------------------------------------------------ the networks considered *)
relu == Relu(1)
sixty_fours == MulConstant(2, 64)
eights == MulConstant(3, 8)
ones == MulConstant(4, 1)
add == Add(5)
layer_norm == LayerNorm(6)

Prims == {relu, sixty_fours, eights, ones, add, layer_norm}

\* G of the Parallel docstring: 3 inputs, 1 output
add_add == Serial(7, <<add, add>>)
\* H of the Parallel docstring: 2 inputs, 2 outputs
relu_relu == Parallel(8, <<relu, relu>>)
\* Example 6
octal_place_values == Parallel(9, <<sixty_fours, eights, ones>>)
\* Example 4
layer_block == Serial(10, <<relu, layer_norm>>)

Blocks == {add_add, relu_relu, octal_place_values, layer_block}

Pool == Prims \cup Blocks
TopId == Cardinality(Pool) + 1
Ids == 1..TopId

\* the layers the outermost combinator is built from
TopPool == {relu, eights, add, layer_norm} \cup Blocks

SubLists == UNION {[1..n -> TopPool] : n \in 1..MaxSub}

\* Example 6': Serial(octal_place_values, Add, Add)
evaluate_octal == Serial(TopId, <<octal_place_values, add, add>>)
\* the Parallel docstring's Parallel(F, G, H)
parallel_fgh == Parallel(TopId, <<relu, add_add, relu_relu>>)

Examples == {evaluate_octal, parallel_fgh}

Nets == Pool \cup Examples
             \cup {Serial(TopId, s) : s \in SubLists}
             \cup {Parallel(TopId, s) : s \in SubLists}

RECURSIVE Instances(_)
\* every layer object reachable from layer, itself included
Instances(layer) ==
    {layer} \cup UNION {Instances(layer.subs[j]) : j \in 1..Len(layer.subs)}

InstanceIds(layer) == {l.id : l \in Instances(layer)}

(* ------------------------------------------- configs/reformer_enwik8.gin *)
\* a bound value: an integer, a boolean, a reference to a configurable (@name)
\* or a reference to another bound value (%name)
GinInt(n) == [kind |-> "int", n |-> n, b |-> FALSE, name |-> ""]
GinBool(b) == [kind |-> "bool", n |-> 0, b |-> b, name |-> ""]
GinSym(name) == [kind |-> "sym", n |-> 0, b |-> FALSE, name |-> name]
GinMacro(name) == [kind |-> "macro", n |-> 0, b |-> FALSE, name |-> name]
Unbound == [kind |-> "none", n |-> 0, b |-> FALSE, name |-> ""]

GinLine(name, val) == [name |-> name, val |-> val]

\* LSH hyperparameters with as many buckets as bins
LshBindingsOneBucketPerBin == <<
    GinLine("LSHCausalAttention.n_bins", GinInt(512)),
    GinLine("LSHCausalAttention.n_buckets", GinInt(512)),
    GinLine("LSHCausalAttention.n_hashes", GinInt(2)) >>

\* "LSHCausalAttention: locality-sensitive hashing (LSH) attention"
LshBindings == <<
    GinLine("LSHCausalAttention.n_bins", GinInt(512)),
    GinLine("LSHCausalAttention.n_buckets", GinInt(1024)),
    GinLine("LSHCausalAttention.n_hashes", GinInt(2)) >>

\* the lines of the file that bind the attention type, its hyperparameters and
\* share_qk, in file order
GinFile == <<
    GinLine("train.model", GinSym("trax.models.ReformerLM")),
    GinLine("attn_type", GinSym("TimeBinCausalAttention")),
    GinLine("share_qk", GinBool(TRUE)),
    GinLine("attn_kv", GinInt(64)),
    GinLine("n_layers", GinInt(3)),
    GinLine("TimeBinCausalAttention.n_bins", GinInt(512)) >>
  \o LshBindings \o <<
    GinLine("MemoryEfficientCausalAttention.share_qk", GinMacro("share_qk")),
    GinLine("TimeBinCausalAttention.share_qk", GinMacro("share_qk")),
    GinLine("TransformerLM.attention_type", GinMacro("attn_type")),
    GinLine("TransformerLM.share_qk", GinMacro("share_qk")),
    GinLine("ReformerLM.attention_type", GinMacro("attn_type")),
    GinLine("ReformerLM.d_attention_key", GinMacro("attn_kv")),
    GinLine("ReformerLM.n_layers", GinMacro("n_layers")),
    GinLine("ReformerLM.share_qk", GinMacro("share_qk")) >>

GinNames == {GinFile[i].name : i \in 1..Len(GinFile)}

(* ----------------------------------------------------------------- state *)
VARIABLES
    net,            \* the layer object the caller holds
    params,         \* params[i]: instance i's parameters, () until initialized
    init_finished,  \* init_finished[i]: instance i has been initialized
    init_log,       \* instances the initialize_once that just returned initialized
    last_init,      \* input shape given to the initialize_once that just returned
    pc,             \* "idle", "serial", "parallel", "done" or "error"; "config"
                    \* while the configuration file is read, then "configured"
    inputs,         \* the arguments of the call in progress
    stack,          \* Serial's data stack, top first
    pos,            \* index of the next sublayer Serial applies
    par_out,        \* par_out[j]: outputs of Parallel's sublayer j
    par_done,       \* sublayers of Parallel that have been applied
    result,         \* what the call returned
    invoked,        \* Serial's sublayer invocations so far, in order: the
                    \* sublayer's position and the arguments it was given
    bindings,       \* gin: the value bound to each name read so far
    gin_pos         \* gin: index of the next line of the configuration file

vars == <<net, params, init_finished, init_log, last_init, pc, inputs, stack,
          pos, par_out, par_done, result, invoked, bindings, gin_pos>>

init_vars == <<params, init_finished, init_log, last_init>>
init_state == <<params, init_finished>>
call_vars == <<pc, inputs, stack, pos, par_out, par_done, result, invoked>>
gin_vars == <<bindings, gin_pos>>

NoCall == [shape |-> 0]

Init ==
    /\ net \in Nets
    /\ params = [i \in Ids |-> <<>>]
    /\ init_finished = [i \in Ids |-> FALSE]
    /\ init_log = <<>>
    /\ last_init = NoCall
    /\ pc \in {"idle", "config"}
    /\ bindings = [k \in GinNames |-> Unbound]
    /\ gin_pos = 1
    /\ inputs = <<>>
    /\ stack = <<>>
    /\ pos = 0
    /\ par_out = <<>>
    /\ par_done = {}
    /\ result = <<>>
    /\ invoked = <<>>

(* --------------------------------------------------------- initialize_once *)
\* an initialize_once that never notices an earlier initialization
NeverInitialized(layer, st) == FALSE

\* "initialize each layer instance once": a second visit creates nothing
AlreadyInitialized(layer, st) == st.fin[layer.id]

\* a combinator that lists its sublayers' parameters last sublayer first
NewParamsReversed(layer, subparams, n) ==
    CASE layer.kind = "LayerNorm" -> LayerNormParams(n)
      [] IsCombinator(layer) ->
            [j \in 1..Len(subparams) |-> subparams[Len(subparams) + 1 - j]]
      [] OTHER -> <<>>

\* parameters that differ from one layer object to the next
NewParamsPerObject(layer, subparams, n) ==
    CASE layer.kind = "LayerNorm" -> << [i \in 1..n |-> layer.id], [i \in 1..n |-> 0] >>
      [] IsCombinator(layer) -> subparams
      [] OTHER -> <<>>

\* new_params_and_state: LayerNorm makes (scale, bias); a combinator's
\* parameters are the list of what initializing its sublayers returned
\* (subparams); the other layers of the notebook have none
NewParams(layer, subparams, n) ==
    CASE layer.kind = "LayerNorm" -> LayerNormParams(n)
      [] IsCombinator(layer) -> subparams
      [] OTHER -> <<>>

RECURSIVE InitLayer(_, _, _), InitSubs(_, _, _)

\* initialize_once on one layer object.  st holds the parameters, the flags
\* and the log so far; st.ret is what the call returns: the parameters it
\* created, or () for a layer object that was initialized before (Example 6'
\* prints () as evaluate_octal's entry for the octal_place_values that
\* Example 6 had initialized, whose own parameters are ((), (), ())).
InitLayer(layer, st, n) ==
    IF AlreadyInitialized(layer, st)
    THEN [st EXCEPT !.ret = <<>>]
    ELSE LET s1 == InitSubs(layer.subs, st, n)
             ps == NewParams(layer, s1.ret, n)
         IN [params |-> [s1.params EXCEPT ![layer.id] = ps],
             fin |-> [s1.fin EXCEPT ![layer.id] = TRUE],
             log |-> Append(s1.log, layer.id),
             ret |-> ps]

\* the sublayers in order; st.ret becomes the list of what each returned
InitSubs(subs, st, n) ==
    IF subs = <<>>
    THEN [st EXCEPT !.ret = <<>>]
    ELSE LET s1 == InitLayer(Head(subs), st, n)
             s2 == InitSubs(Tail(subs), s1, n)
         IN [s2 EXCEPT !.ret = << s1.ret >> \o s2.ret]

\* layer objects the caller can name: the network and its sublayers
Targets == {net} \cup {net.subs[j] : j \in 1..Len(net.subs)}

\* target.initialize_once(input_shapes, input_dtype, rng), every input
\* shape having n entries on its last axis
InitializeOnce(target, n, dtype, rng) ==
    /\ pc = "idle"
    /\ LET st == InitLayer(target,
                           [params |-> params, fin |-> init_finished,
                            log |-> <<>>, ret |-> <<>>], n)
       IN /\ params' = st.params
          /\ init_finished' = st.fin
          /\ init_log' = st.log
    /\ last_init' = [shape |-> n]
    /\ UNCHANGED <<gin_vars, net, call_vars>>

(* ------------------------------------------------------------ forward pass *)
RECURSIVE Apply(_, _), SerialRun(_, _), ParallelRun(_, _)

\* a step that calls the layer but leaves its arguments on the stack
StackStepNoPop(layer, stk) ==
    Apply(layer, SubSeq(stk, 1, layer.n_in)) \o stk

\* a step that hands the layer the call's own arguments, not the stack's top
StackStepStale(layer, stk) ==
    Apply(layer, SubSeq(inputs \o stk, 1, layer.n_in)) \o SubSeq(stk, layer.n_in + 1, Len(stk))

\* a step that pushes the layer's return values beneath the rest of the stack
StackStepPushBelow(layer, stk) ==
    SubSeq(stk, layer.n_in + 1, Len(stk)) \o Apply(layer, SubSeq(stk, 1, layer.n_in))

\* a step that puts the items it did not take back in the opposite order
StackStepReverseRest(layer, stk) ==
    LET rest == SubSeq(stk, layer.n_in + 1, Len(stk))
    IN Apply(layer, SubSeq(stk, 1, layer.n_in))
           \o [i \in 1..Len(rest) |-> rest[Len(rest) + 1 - i]]

\* One Serial step for sublayer `layer`: take n_inputs items off the top of
\* the stack, call the layer on them, push its return values.
StackStep(layer, stk) ==
    Apply(layer, SubSeq(stk, 1, layer.n_in)) \o SubSeq(stk, layer.n_in + 1, Len(stk))

SerialRun(subs, stk) ==
    IF subs = <<>> THEN stk
    ELSE SerialRun(Tail(subs), StackStep(Head(subs), stk))

\* Parallel, left to right: each sublayer gets the next span of inputs
ParallelRun(subs, xs) ==
    IF subs = <<>> THEN <<>>
    ELSE Apply(Head(subs), SubSeq(xs, 1, Head(subs).n_in))
             \o ParallelRun(Tail(subs), SubSeq(xs, Head(subs).n_in + 1, Len(xs)))

\* layer(xs): the tuple of outputs
Apply(layer, xs) ==
    CASE layer.kind = "Relu" -> << ReluF(xs[1]) >>
      [] layer.kind = "MulConstant" -> << MulConstantF(xs[1], layer.c) >>
      [] layer.kind = "Add" -> << AddF(xs[1], xs[2]) >>
      [] layer.kind = "LayerNorm" -> << LayerNormF(xs[1], params[layer.id]) >>
      [] layer.kind = "Serial" -> SerialRun(layer.subs, xs)
      [] layer.kind = "Parallel" -> ParallelRun(layer.subs, xs)

\* spans that start one input further for each sublayer before the j-th
SpanStartOneEach(subs, j) == j - 1

\* number of inputs the sublayers before the j-th take
SpanStart(subs, j) == SumIn(SubSeq(subs, 1, j - 1))

\* the span of inputs of Parallel's j-th sublayer
Span(subs, j, xs) == SubSeq(xs, SpanStart(subs, j) + 1, SpanStart(subs, j) + subs[j].n_in)

RECURSIVE Flatten(_)
\* concatenation of a list of output tuples
Flatten(outs) == IF outs = <<>> THEN <<>> ELSE Head(outs) \o Flatten(Tail(outs))

\* length of the arrays a call is given
VecLen == Len(Vals[1].v)

\* a caller that never waits for initialize_once
ReadyAlways(layer) == TRUE

\* "Before use, trainable layers must have their parameters initialized":
\* every LayerNorm in the network has parameters, of the inputs' length
Ready(layer) ==
    \A l \in Instances(layer) :
        l.kind = "LayerNorm" =>
            /\ init_finished[l.id]
            /\ Len(params[l.id][1]) = VecLen

\* a Serial needs at least n_inputs items, any other layer exactly n_inputs
ValidInputs(layer, xs) ==
    IF layer.kind = "Serial" THEN Len(xs) >= layer.n_in ELSE Len(xs) = layer.n_in

\* y = net(xs)
Call(xs) ==
    /\ pc = "idle"
    /\ Ready(net)
    /\ inputs' = xs
    /\ IF ~ValidInputs(net, xs)
       THEN /\ pc' = "error"
            /\ UNCHANGED <<stack, pos, par_out, par_done, result>>
       ELSE CASE net.kind = "Serial" ->
                   /\ pc' = "serial"
                   /\ stack' = xs
                   /\ pos' = 1
                   /\ UNCHANGED <<par_out, par_done, result>>
              [] net.kind = "Parallel" ->
                   /\ pc' = "parallel"
                   /\ par_out' = [j \in 1..Len(net.subs) |-> <<>>]
                   /\ par_done' = {}
                   /\ UNCHANGED <<stack, pos, result>>
              [] OTHER ->
                   /\ pc' = "done"
                   /\ result' = Apply(net, xs)
                   /\ UNCHANGED <<stack, pos, par_out, par_done>>
    /\ invoked' = <<>>
    /\ init_log' = <<>>
    /\ last_init' = NoCall
    /\ UNCHANGED <<gin_vars, net, init_state>>

\* Serial applies its next sublayer to the data stack
SerialStep ==
    /\ pc = "serial"
    /\ pos <= Len(net.subs)
    /\ stack' = StackStep(net.subs[pos], stack)
    /\ invoked' = Append(invoked, [k |-> pos,
                                    args |-> SubSeq(stack, 1, net.subs[pos].n_in)])
    /\ pos' = pos + 1
    /\ UNCHANGED <<gin_vars, net, init_vars, pc, inputs, par_out, par_done, result>>

\* a Serial that returns the stack before its last sublayer has been applied
SerialReturnEarly ==
    /\ pc = "serial"
    /\ pos >= Len(net.subs)
    /\ pc' = "done"
    /\ result' = stack
    /\ UNCHANGED <<gin_vars, net, init_vars, inputs, stack, pos, par_out, par_done, invoked>>

\* after the last sublayer the stack is what Serial returns
SerialReturn ==
    /\ pc = "serial"
    /\ pos > Len(net.subs)
    /\ pc' = "done"
    /\ result' = stack
    /\ UNCHANGED <<gin_vars, net, init_vars, inputs, stack, pos, par_out, par_done, invoked>>

RECURSIVE TakenBy(_, _)
\* number of inputs the sublayers in S take
TakenBy(subs, S) ==
    IF S = {} THEN 0
    ELSE LET j == CHOOSE x \in S : TRUE
         IN subs[j].n_in + TakenBy(subs, S \ {j})

\* channels that take their inputs from a cursor shared by all of them: a
\* sublayer's span starts where the sublayers that ran before it stopped
ParallelStepShared(j) ==
    /\ pc = "parallel"
    /\ j \in 1..Len(net.subs)
    /\ j \notin par_done
    /\ par_out' = [par_out EXCEPT ![j] =
                      Apply(net.subs[j],
                            SubSeq(inputs, TakenBy(net.subs, par_done) + 1,
                                   TakenBy(net.subs, par_done) + net.subs[j].n_in))]
    /\ par_done' = par_done \cup {j}
    /\ UNCHANGED <<gin_vars, net, init_vars, pc, inputs, stack, pos, result, invoked>>

\* Parallel applies sublayer j, in whatever order the channels run, to its span
ParallelStep(j) ==
    /\ pc = "parallel"
    /\ j \in 1..Len(net.subs)
    /\ j \notin par_done
    /\ par_out' = [par_out EXCEPT ![j] = Apply(net.subs[j], Span(net.subs, j, inputs))]
    /\ par_done' = par_done \cup {j}
    /\ UNCHANGED <<gin_vars, net, init_vars, pc, inputs, stack, pos, result, invoked>>

\* the outputs of all sublayers, flattened in sublayer order
ParallelReturn ==
    /\ pc = "parallel"
    /\ par_done = 1..Len(net.subs)
    /\ pc' = "done"
    /\ result' = Flatten(par_out)
    /\ UNCHANGED <<gin_vars, net, init_vars, inputs, stack, pos, par_out, par_done, invoked>>

\* the caller has its answer (or its error) and may call again
Finish ==
    /\ pc \in {"done", "error"}
    /\ pc' = "idle"
    /\ inputs' = <<>>
    /\ stack' = <<>>
    /\ pos' = 0
    /\ par_out' = <<>>
    /\ par_done' = {}
    /\ result' = <<>>
    /\ invoked' = <<>>
    /\ UNCHANGED <<gin_vars, net, init_vars>>

(* ------------------------------------------------- reading the bindings *)
\* a reader that hands out a reference as it stands in the file
ResolveUnfollowed(b, name) == b[name]

\* the value a name has for its consumer: a %reference stands for the value
\* bound to the name it refers to
Resolve(b, name) ==
    IF b[name].kind = "macro" THEN b[b[name].name] ELSE b[name]

\* the next line of the file binds its name to its value
ParseBinding ==
    /\ pc = "config"
    /\ gin_pos <= Len(GinFile)
    /\ bindings' = [bindings EXCEPT ![GinFile[gin_pos].name] = GinFile[gin_pos].val]
    /\ gin_pos' = gin_pos + 1
    /\ UNCHANGED <<net, init_vars, call_vars>>

\* end of file: the bindings are handed to the trainer
FinishParse ==
    /\ pc = "config"
    /\ gin_pos > Len(GinFile)
    /\ pc' = "configured"
    /\ UNCHANGED <<gin_vars, net, init_vars, inputs, stack, pos, par_out, par_done,
                   result, invoked>>

\* numbers of arguments tried: up to MaxMissing too few, up to MaxExtra more
CallSizes == {n \in (net.n_in - MaxMissing)..(net.n_in + MaxExtra) : n >= 0}

Next ==
    \/ \E t \in Targets, n \in Shapes, d \in Dtypes, r \in Seeds : InitializeOnce(t, n, d, r)
    \/ \E n \in CallSizes, r \in 0..(Len(Vals) - 1) : Call(InputRow(n, r))
    \/ SerialStep
    \/ SerialReturn
    \/ \E j \in 1..Len(net.subs) : ParallelStep(j)
    \/ ParallelReturn
    \/ Finish
    \/ ParseBinding
    \/ FinishParse

Spec == Init /\ [][Next]_vars

(* ------------------------------------------------------------------ C1 *)
\* C1: each Serial step for sublayer Lk on a stack of depth d >= Lk.n_inputs
\* leaves depth d - Lk.n_inputs + Lk.n_outputs, the layer's return values
\* (what Lk gives for the n_inputs top items) being on top.
C1_StepDepth ==
    [][(pc = "serial" /\ pos' = pos + 1 /\ Len(stack) >= net.subs[pos].n_in) =>
          LET L == net.subs[pos]
          IN /\ Len(stack') = Len(stack) - L.n_in + L.n_out
             /\ Len(Apply(L, SubSeq(stack, 1, L.n_in))) = L.n_out
             /\ SubSeq(stack', 1, L.n_out) = Apply(L, SubSeq(stack, 1, L.n_in))]_vars

\* a Serial over a 3 -> 1 block, called with one item more than it needs,
\* has applied the block: 4 items became 2
C1_Witness ==
    /\ pc = "serial"
    /\ pos = 2
    /\ net.subs[1] = add_add
    /\ Len(inputs) = net.n_in + 1
    /\ Len(inputs) = 4
    /\ Len(stack) = 2

(* ------------------------------------------------------------------ C2 *)
OneToOne(layer) == layer.n_in = 1 /\ layer.n_out = 1

\* C2: for single-input/single-output layers A and B, Serial(A, B) applied to
\* x returns exactly one value, B(A(x)).
C2_Composition ==
    (/\ pc = "done"
     /\ net.kind = "Serial"
     /\ Len(net.subs) = 2
     /\ OneToOne(net.subs[1])
     /\ OneToOne(net.subs[2])
     /\ Len(inputs) = 1)
    => /\ Len(result) = 1
       /\ result = Apply(net.subs[2], Apply(net.subs[1], inputs))

\* Example 4's Serial(Relu, LayerNorm) on the row with negative entries
C2_Witness ==
    /\ pc = "done"
    /\ net = Serial(TopId, <<relu, layer_norm>>)
    /\ inputs = << Vec(<<-2, 0, 2>>) >>
    /\ result = << Term("LayerNorm", << Vec(<<0, 0, 2>>) >>, LayerNormParams(3)) >>

(* ------------------------------------------------------------------ C3 *)
\* C3: a Serial's declared arities follow its sublayers' arities: evaluated on
\* exactly n_inputs values it leaves exactly n_outputs values, and
\* n_outputs - n_inputs is the sum over sublayers of (n_outputs - n_inputs);
\* [3->3, 2->1, 2->1] declares in=3, out=1 and [1->1, 1->1] in=1, out=1.
C3_SerialArity ==
    /\ net.kind = "Serial" =>
          /\ net.n_out - net.n_in = SumOut(net.subs) - SumIn(net.subs)
          /\ (pc = "done" /\ Len(inputs) = net.n_in) => Len(result) = net.n_out
    /\ net = evaluate_octal => (net.n_in = 3 /\ net.n_out = 1)
    /\ net = Serial(TopId, <<relu, layer_norm>>) => (net.n_in = 1 /\ net.n_out = 1)

\* Example 6' has run on its three inputs and returned one value
C3_Witness ==
    /\ pc = "done"
    /\ net = evaluate_octal
    /\ Len(inputs) = 3
    /\ Len(result) = 1

(* ------------------------------------------------------------------ C5 *)
\* C5: a Parallel over sublayers with input arities a1..an and output arities
\* b1..bn takes exactly a1+...+an inputs and gives exactly b1+...+bn outputs;
\* F:1->1, G:3->1, H:2->2 gives 6 and 4, three 1->1 layers give 3 and 3.
C5_ParallelArity ==
    /\ net.kind = "Parallel" =>
          /\ net.n_in = SumIn(net.subs)
          /\ net.n_out = SumOut(net.subs)
          /\ (pc = "done" /\ Len(inputs) = SumIn(net.subs)) =>
                Len(result) = SumOut(net.subs)
    /\ net = parallel_fgh => (net.n_in = 6 /\ net.n_out = 4)
    /\ net = octal_place_values => (net.n_in = 3 /\ net.n_out = 3)

\* Parallel(F, G, H) has turned six inputs into four outputs
C5_Witness ==
    /\ pc = "done"
    /\ net = parallel_fgh
    /\ Len(inputs) = 6
    /\ Len(result) = 4

(* ------------------------------------------------------------------ C6 *)
\* inputs taken, and outputs given, by the sublayers before the j-th
InBefore(subs, j) == SumIn(SubSeq(subs, 1, j - 1))
OutBefore(subs, j) == SumOut(SubSeq(subs, 1, j - 1))

\* C6: Parallel gives its k-th sublayer the k-th of the contiguous spans of
\* the inputs (of length ak, in sublayer order) and returns the sublayers'
\* outputs concatenated in sublayer order; three 1->1 layers on (a, b, c)
\* give (F(a), G(b), H(c)); multiply-by 64, 8, 1 on ([1,3,5],[2,4,6],[3,5,7])
\* gives ([64,192,320],[16,32,48],[3,5,7]).
C6_ParallelSpans ==
    (pc = "done" /\ net.kind = "Parallel") =>
        /\ \A j \in 1..Len(net.subs) :
              SubSeq(result, OutBefore(net.subs, j) + 1,
                     OutBefore(net.subs, j) + net.subs[j].n_out)
                = Apply(net.subs[j],
                        SubSeq(inputs, InBefore(net.subs, j) + 1,
                               InBefore(net.subs, j) + net.subs[j].n_in))
        /\ (\A j \in 1..Len(net.subs) : OneToOne(net.subs[j])) =>
              result = [j \in 1..Len(net.subs) |-> Apply(net.subs[j], << inputs[j] >>)[1]]
        /\ (net = octal_place_values /\ inputs = InputRow(3, 0)) =>
              result = << Vec(<<64, 192, 320>>), Vec(<<16, 32, 48>>), Vec(<<3, 5, 7>>) >>

\* Example 6 has run on the notebook's inputs
C6_Witness ==
    /\ pc = "done"
    /\ net = octal_place_values
    /\ inputs = << Vec(<<1, 3, 5>>), Vec(<<2, 4, 6>>), Vec(<<3, 5, 7>>) >>
    /\ result = << Vec(<<64, 192, 320>>), Vec(<<16, 32, 48>>), Vec(<<3, 5, 7>>) >>

(* ------------------------------------------------------------------ C7 *)
\* C7: in whatever order the sublayers of a Parallel are applied, each one's
\* outputs are those it has when the sublayers run left to right, and so is
\* the tuple returned.
C7_OrderIndependent ==
    /\ (pc = "parallel") =>
          \A j \in par_done :
              par_out[j] = SubSeq(ParallelRun(net.subs, inputs),
                                  OutBefore(net.subs, j) + 1,
                                  OutBefore(net.subs, j) + net.subs[j].n_out)
    /\ (pc = "done" /\ net.kind = "Parallel") => result = ParallelRun(net.subs, inputs)

\* H, the last sublayer of Parallel(F, G, H), has run before F and G
C7_Witness ==
    /\ pc = "parallel"
    /\ net = parallel_fgh
    /\ par_done = {3}
    /\ par_out[3] = Apply(relu_relu, SubSeq(inputs, 5, 6))

(* ------------------------------------------------------------------ C8 *)
\* C8: initialize_once on a layer instance that is already initialized leaves
\* the instance initialized with the parameters it had, whatever input shape,
\* dtype or seed the call is given.
C8_InitOnce ==
    [][\A i \in Ids :
          init_finished[i] => (init_finished'[i] /\ params'[i] = params[i])]_vars

\* layer_norm, initialized for inputs of length 3, has been given a second
\* initialize_once with length 5: nothing was created, (scale, bias) is as before
C8_Witness ==
    /\ init_finished[layer_norm.id]
    /\ params[layer_norm.id] = LayerNormParams(3)
    /\ last_init.shape = 5
    /\ init_log = <<>>

(* ------------------------------------------------------------------ C9 *)
Range(seq) == {seq[i] : i \in 1..Len(seq)}
NoDup(seq) == \A a, b \in 1..Len(seq) : a # b => seq[a] # seq[b]

\* the layer object of the network that has id i
InstanceOf(i) == CHOOSE l \in Instances(net) : l.id = i

RECURSIVE NormParams(_)
\* the parameter values the LayerNorm applications inside value x used
NormParams(x) ==
    IF IsNum(x) THEN {}
    ELSE (IF x.tag = "LayerNorm" THEN {x.p} ELSE {})
             \cup UNION {NormParams(x.v[i]) : i \in 1..Len(x.v)}

C10_Original ==
    \A c \in Instances(net) :
        (IsCombinator(c) /\ init_finished[c.id]) =>
            /\ Len(params[c.id]) = Len(c.subs)
            /\ \A j \in 1..Len(c.subs) : params[c.id][j] = params[c.subs[j].id]

\* ids of the layer objects under the first j - 1 sublayers
IdsBefore(subs, j) == UNION {InstanceIds(subs[i]) : i \in 1..(j - 1)}

\* first position of sublayer c in combinator T
FirstPos(T, c) ==
    CHOOSE q \in 1..Len(T.subs) : T.subs[q] = c /\ \A i \in 1..(q - 1) : T.subs[i] # c

\* the layer objects already initialized when a pass that starts at T reaches
\* the j-th sublayer of its combinator c (T itself or one of T's sublayers)
ReachedBefore(T, c, j) ==
    {i \in Ids : init_finished[i]}
        \cup (IF c = T THEN {} ELSE IdsBefore(T.subs, FirstPos(T, c)))
        \cup IdsBefore(c.subs, j)

\* C10 (amended): a combinator that an initialize_once pass initializes gets
\* exactly one entry per sublayer, in sublayer order, and nothing of its own;
\* the entry is the sublayer's own parameter tree (empty for a parameterless
\* sublayer) if the pass initialized that sublayer there, and the empty tuple
\* if that layer object was already initialized when the pass reached it.
C10_ParamTree ==
    [][(init_finished' # init_finished) =>
          LET T == InstanceOf(init_log'[Len(init_log')])
          IN \A c \in Instances(T) :
                (IsCombinator(c) /\ ~init_finished[c.id]) =>
                    /\ init_finished'[c.id]
                    /\ Len(params'[c.id]) = Len(c.subs)
                    /\ \A j \in 1..Len(c.subs) :
                          params'[c.id][j] =
                              IF c.subs[j].id \in ReachedBefore(T, c, j)
                              THEN <<>>
                              ELSE params'[c.subs[j].id]]_vars

\* Example 6': octal_place_values was initialized first (Example 6), then
\* evaluate_octal; evaluate_octal.params is [(), (), ()] while
\* octal_place_values.params is ((), (), ())
C10_Witness ==
    /\ net = evaluate_octal
    /\ init_finished[TopId]
    /\ params[octal_place_values.id] = << <<>>, <<>>, <<>> >>
    /\ params[TopId] = << <<>>, <<>>, <<>> >>

(* ----------------------------------------------------------------- C11 *)
\* 64 a + 8 b + c, entry by entry
OctalValue(a, b, c) == Vec([i \in 1..Len(a.v) |-> 64 * a.v[i] + 8 * b.v[i] + c.v[i]])

\* C11: in Serial(Parallel(F, G, H), Add, Add) on (a, b, c), F, G, H being the
\* multiply-by 64, 8 and 1 layers, the first Add is given F(a) and G(b), the
\* second Add is given that sum and H(c), and the composite returns the single
\* value F(a) + G(b) + H(c): [83, 229, 375] for ([1,3,5], [2,4,6], [3,5,7]).
C11_EvaluateOctal ==
    (net = evaluate_octal /\ Len(inputs) = 3 /\ pc \in {"serial", "done"}) =>
        LET a == inputs[1]
            b == inputs[2]
            c == inputs[3]
            Fa == Vec([i \in 1..Len(a.v) |-> 64 * a.v[i]])
            Gb == Vec([i \in 1..Len(b.v) |-> 8 * b.v[i]])
            Hc == Vec([i \in 1..Len(c.v) |-> c.v[i]])
            FaGb == Vec([i \in 1..Len(a.v) |-> 64 * a.v[i] + 8 * b.v[i]])
        IN /\ Len(invoked) >= 2 => invoked[2] = [k |-> 2, args |-> <<Fa, Gb>>]
           /\ Len(invoked) >= 3 => invoked[3] = [k |-> 3, args |-> <<FaGb, Hc>>]
           /\ pc = "done" =>
                 /\ Len(invoked) = 3
                 /\ result = << OctalValue(a, b, c) >>
           /\ (pc = "done" /\ inputs = InputRow(3, 0)) =>
                 result = << Vec(<<83, 229, 375>>) >>

\* Example 6' has returned [83, 229, 375] for the notebook's digits, its two
\* Adds having run
C11_Witness ==
    /\ pc = "done"
    /\ net = evaluate_octal
    /\ inputs = << Vec(<<1, 3, 5>>), Vec(<<2, 4, 6>>), Vec(<<3, 5, 7>>) >>
    /\ Len(invoked) = 3
    /\ invoked[2].args = << Vec(<<64, 192, 320>>), Vec(<<16, 32, 48>>) >>
    /\ invoked[3].args = << Vec(<<80, 224, 368>>), Vec(<<3, 5, 7>>) >>
    /\ result = << Vec(<<83, 229, 375>>) >>

(* ----------------------------------------------------------------- C12 *)
\* C12: a Serial step for sublayer Lk touches only the Lk.n_inputs items it
\* takes: the sublayer is given exactly the n_inputs top items and nothing
\* else, and every item beneath them is on the stack after the step with its
\* value, in the same order, right beneath the sublayer's return values.
C12_StepFrame ==
    [][(pc = "serial" /\ pos' = pos + 1) =>
          LET L == net.subs[pos]
              given == invoked'[Len(invoked')].args
          IN /\ Len(invoked') = Len(invoked) + 1
             /\ Len(given) = L.n_in
             /\ given = SubSeq(stack, 1, L.n_in)
             /\ SubSeq(stack', 1, L.n_out) = Apply(L, given)
             /\ Len(stack') - L.n_out = Len(stack) - L.n_in
             /\ \A i \in (L.n_in + 1)..Len(stack) :
                   stack'[i - L.n_in + L.n_out] = stack[i]]_vars

\* Serial(Relu, Add) called with one item more than it needs: Relu took the
\* top item, the two different items beneath it are where they were
C12_Witness ==
    /\ pc = "serial"
    /\ net = Serial(TopId, <<relu, add>>)
    /\ pos = 2
    /\ Len(inputs) = 3
    /\ invoked = << [k |-> 1, args |-> << inputs[1] >>] >>
    /\ inputs[2] # inputs[3]
    /\ SubSeq(stack, 2, 3) = SubSeq(inputs, 2, 3)

(* ----------------------------------------------------------------- C13 *)
\* C13: while a Serial that was given at least its declared n_inputs values
\* is being evaluated, the stack always holds at least as many items as the
\* sublayer to be applied next takes: no step pops from an empty stack.
C13_NoUnderflow ==
    (/\ pc = "serial"
     /\ Len(inputs) >= net.n_in
     /\ pos <= Len(net.subs))
    => Len(stack) >= net.subs[pos].n_in

\* Example 6' on its three inputs, before the last Add: the stack holds
\* exactly the two items that Add takes
C13_Witness ==
    /\ pc = "serial"
    /\ net = evaluate_octal
    /\ Len(inputs) = net.n_in
    /\ pos = 3
    /\ net.subs[pos].n_in = 2
    /\ Len(stack) = 2

(* ----------------------------------------------------------------- C14 *)
\* C14: one evaluation of a Serial over L1..Ln invokes the sublayers in list
\* order, each once: the i-th invocation is of Li; Li+1 is invoked on the top
\* of the stack that L1..Li left, so after Li's return values were pushed;
\* and the evaluation returns after exactly n invocations.
C14_InOrderOnce ==
    (pc \in {"serial", "done"} /\ net.kind = "Serial") =>
        /\ \A i \in 1..Len(invoked) :
              /\ invoked[i].k = i
              /\ invoked[i].args =
                    SubSeq(SerialRun(SubSeq(net.subs, 1, i - 1), inputs),
                           1, net.subs[i].n_in)
        /\ pc = "serial" =>
              /\ Len(invoked) = pos - 1
              /\ pos <= Len(net.subs) + 1
              /\ stack = SerialRun(SubSeq(net.subs, 1, pos - 1), inputs)
        /\ pc = "done" =>
              /\ Len(invoked) = Len(net.subs)
              /\ result = SerialRun(net.subs, inputs)

\* Example 6' called with an item more than it needs has returned after its
\* three sublayers were invoked, first to last
C14_Witness ==
    /\ pc = "done"
    /\ net = evaluate_octal
    /\ Len(inputs) = 4
    /\ [i \in 1..Len(invoked) |-> invoked[i].k] = <<1, 2, 3>>
    /\ Len(result) = 2

(* ----------------------------------------------------------------- C15 *)
\* a layer with no parameters, no state and no sublayers
Parameterless(layer) == layer.kind \in {"Relu", "MulConstant", "Add"}

\* what such a layer computes from its arguments alone
PlainFunction(layer, xs) ==
    CASE layer.kind = "Relu" ->
            << Vec([i \in 1..Len(xs[1].v) |-> IF xs[1].v[i] > 0 THEN xs[1].v[i] ELSE 0]) >>
      [] layer.kind = "MulConstant" ->
            << Vec([i \in 1..Len(xs[1].v) |-> layer.c * xs[1].v[i]]) >>
      [] layer.kind = "Add" ->
            << Vec([i \in 1..Len(xs[1].v) |-> xs[1].v[i] + xs[2].v[i]]) >>

\* C15: a layer with no parameters, state or sublayers can be called without
\* any initialize_once before, and returns the same function of its arguments
\* whether it was initialized or not; a layer that owns parameters (LayerNorm)
\* is only ever used after initialize_once gave it its parameters, and what it
\* returns was computed with them.
C15_CallWithoutInit ==
    /\ (pc = "done" /\ Parameterless(net)) =>
          /\ result = PlainFunction(net, inputs)
          /\ params[net.id] = <<>>
    /\ pc \in {"serial", "parallel", "done"} =>
          \A l \in Instances(net) :
              l.kind = "LayerNorm" =>
                  /\ init_finished[l.id]
                  /\ params[l.id] = LayerNormParams(VecLen)
    /\ pc = "done" =>
          \A k \in 1..Len(result) :
              \A p \in NormParams(result[k]) : p = LayerNormParams(VecLen)

\* Example 1: relu, never initialized, has been called on a row with negative
\* entries
C15_Witness ==
    /\ pc = "done"
    /\ net = relu
    /\ ~init_finished[relu.id]
    /\ inputs = << Vec(<<-2, 0, 2>>) >>
    /\ result = << Vec(<<0, 0, 2>>) >>

\* the same call after relu.initialize_once
C15_AfterInit ==
    /\ pc = "done"
    /\ net = relu
    /\ init_finished[relu.id]
    /\ inputs = << Vec(<<-2, 0, 2>>) >>
    /\ result = << Vec(<<0, 0, 2>>) >>

(* ----------------------------------------------------------------- C16 *)
\* the names through which the models and attention layers receive share_qk
ShareQkConsumers ==
    {"MemoryEfficientCausalAttention.share_qk", "TimeBinCausalAttention.share_qk",
     "TransformerLM.share_qk", "ReformerLM.share_qk"}

\* C16: in reformer_enwik8.gin, LSHCausalAttention.n_buckets is twice
\* LSHCausalAttention.n_bins as soon as both are bound, and once the file is
\* read share_qk is True for every model and attention layer that takes it,
\* which is what LSHCausalAttention requires.
C16_LshBuckets ==
    /\ (/\ bindings["LSHCausalAttention.n_bins"] # Unbound
        /\ bindings["LSHCausalAttention.n_buckets"] # Unbound) =>
          /\ Resolve(bindings, "LSHCausalAttention.n_bins").kind = "int"
          /\ Resolve(bindings, "LSHCausalAttention.n_buckets").kind = "int"
          /\ Resolve(bindings, "LSHCausalAttention.n_buckets").n
                = 2 * Resolve(bindings, "LSHCausalAttention.n_bins").n
    /\ pc = "configured" =>
          /\ bindings["LSHCausalAttention.n_bins"] # Unbound
          /\ bindings["LSHCausalAttention.n_buckets"] # Unbound
          /\ Resolve(bindings, "share_qk") = GinBool(TRUE)
          /\ \A name \in ShareQkConsumers : Resolve(bindings, name) = GinBool(TRUE)

\* the whole file has been read: 512 bins, 1024 buckets, and ReformerLM, the
\* model trained, gets share_qk = True through %share_qk
C16_Witness ==
    /\ pc = "configured"
    /\ gin_pos = Len(GinFile) + 1
    /\ bindings["LSHCausalAttention.n_bins"] = GinInt(512)
    /\ bindings["LSHCausalAttention.n_buckets"] = GinInt(1024)
    /\ bindings["ReformerLM.share_qk"] = GinMacro("share_qk")
    /\ Resolve(bindings, "ReformerLM.share_qk").b
    /\ Resolve(bindings, "train.model") = GinSym("trax.models.ReformerLM")

(* ----------------------------------------------------------------- C17 *)
RECURSIVE FlatSubs(_)
\* a sublayer list with every nested Serial replaced by its own sublayers
FlatSubs(subs) ==
    IF subs = <<>> THEN <<>>
    ELSE (IF Head(subs).kind = "Serial"
          THEN FlatSubs(Head(subs).subs)
          ELSE << Head(subs) >>) \o FlatSubs(Tail(subs))

SameArity(f, g) == f.n_in = g.n_in /\ f.n_out = g.n_out

\* C17: nesting does not matter to Serial.  A Serial with nested Serials
\* declares the arities of the Serial over the flattened list and returns what
\* that one returns on the same stack; and for the Serial(A, B) at hand and
\* every further layer C, Serial(Serial(A, B), C), Serial(A, Serial(B, C)) and
\* Serial(A, B, C) declare the same n_inputs and n_outputs and return the same
\* outputs on every stack of n_inputs items.
C17_SerialAssociative ==
    /\ net.kind = "Serial" =>
          /\ SameArity(net, Serial(TopId, FlatSubs(net.subs)))
          /\ pc = "done" => result = SerialRun(FlatSubs(net.subs), inputs)
    /\ (pc = "idle" /\ net.kind = "Serial" /\ Len(net.subs) = 2) =>
          \A C \in TopPool :
              LET A == net.subs[1]
                  B == net.subs[2]
                  L == Serial(TopId, <<net, C>>)
                  R == Serial(TopId, <<A, Serial(TopId, <<B, C>>)>>)
                  F == Serial(TopId, <<A, B, C>>)
              IN /\ SameArity(L, F)
                 /\ SameArity(R, F)
                 /\ Ready(F) =>
                       \A r \in 0..(Len(Vals) - 1) :
                           /\ Apply(L, InputRow(F.n_in, r)) = Apply(F, InputRow(F.n_in, r))
                           /\ Apply(R, InputRow(F.n_in, r)) = Apply(F, InputRow(F.n_in, r))
                           /\ Len(Apply(F, InputRow(F.n_in, r))) = F.n_out

\* Serial(Add, Serial(Add, Add)) has run on four items and returned what
\* Serial(Add, Add, Add) returns, their sum
C17_Witness ==
    /\ pc = "done"
    /\ net = Serial(TopId, <<add, add_add>>)
    /\ FlatSubs(net.subs) = <<add, add, add>>
    /\ inputs = InputRow(4, 0)
    /\ result = << Vec(<<4, 12, 20>>) >>

(* ----------------------------------------------------------------- C18 *)
\* the id of layer object i's counterpart in a second copy of the hierarchy
TwinId(i) == (i % TopId) + 1

RECURSIVE Twin(_), TwinSubs(_)
\* a second hierarchy of the same structure, made of other layer objects
Twin(layer) == [layer EXCEPT !.id = TwinId(layer.id), !.subs = TwinSubs(layer.subs)]
TwinSubs(subs) ==
    IF subs = <<>> THEN <<>> ELSE << Twin(Head(subs)) >> \o TwinSubs(Tail(subs))

\* nothing initialized yet
Fresh == [params |-> [i \in Ids |-> <<>>], fin |-> [i \in Ids |-> FALSE],
          log |-> <<>>, ret |-> <<>>]

====
